---- MODULE Spec2Model ----
(***************************************************************************)
(* Model of kernel/src/process/thread.rs (rCore): the thread table, the    *)
(* user image loader, the creation operations new_user / fork / new_clone, *)
(* the run-loop task built by spawn and the page-table-switch wrapper.     *)
(*                                                                         *)
(* Heap objects (Arc<Thread>, Arc<Mutex<Process>>, Arc<Mutex<MemorySet>>)  *)
(* are entries of the sequences threads, procs and vms; a handle is an     *)
(* index into the sequence, so two handles alias iff the indexes are equal.*)
(* Option<T> and Weak<T> are sequences of length at most one:              *)
(* <<>> is None / a weak reference that does not upgrade, <<x>> is Some(x).*)
(***************************************************************************)
EXTENDS Integers, Sequences, FiniteSets, TLC

VARIABLES
    threads,      \* heap of Thread objects
    procs,        \* heap of Process objects
    vms,          \* heap of MemorySet objects; the token of vms[i] is i
    THREADS,      \* the global table: tid -> handle of a Thread
    PROCESSES,    \* the global process table: pid -> handle of a Process
    PROCESSORS,   \* per-CPU current thread: Option<handle of a Thread>
    pageTable,    \* per-CPU active paging token
    task,         \* per thread handle: the task made by spawn (run-loop + wrapper)
    cpu,          \* per CPU: the task whose poll is in progress, and where it is
    kpanic,       \* "" while the kernel runs, else the panic message
    load,         \* one call of new_user_vm: its inputs and its outcome
    call          \* per CPU: the creation call in progress on it, lock by lock

vars == <<threads, procs, vms, THREADS, PROCESSES, PROCESSORS, pageTable,
          task, cpu, kpanic, load, call>>

----------------------------------------------------------------------------
(* Bounds of the model *)

MaxThreads == 3        \* Thread objects allocated by the creation operations
MaxRunThreads == 2     \* Thread objects allocated while tasks run
MaxTrapThreads == 1    \* Thread objects allocated in SpecTrap
MaxLockThreads == 4    \* Thread objects allocated in SpecLocks
MaxKey == 4            \* largest key of an initial table in SpecTable
NumCpus == 2

Cpus == 1..NumCpus

----------------------------------------------------------------------------
(* Constants of the program *)

INIT == 1              \* Pid::INIT
PidNew == INIT         \* Pid::new(), the placeholder before a pid is assigned
RFLAGS == 12802        \* 0x3202
T_SYSCALL == 256       \* 0x100
T_IRQ_FIRST == 32      \* 0x20
T_IRQ_LAST == 63       \* 0x3f
T_COM1 == 36           \* 0x20 + 4
T_PAGE_FAULT == 14     \* 0xe
UStackTop == 8         \* USER_STACK_OFFSET + USER_STACK_SIZE
PieBias == 4           \* load offset chosen for a shared object

None == <<>>
Some(x) == <<x>>
IsSome(o) == Len(o) = 1
Unwrap(o) == o[1]

----------------------------------------------------------------------------
(* UserContext *)

\* UserContext::default()
DefaultContext ==
    [ip |-> 0, sp |-> 0, tls |-> 0, ret |-> 0, rflags |-> 0, trap_num |-> 0]

set_ip(c, v) == [c EXCEPT !.ip = v]
set_sp(c, v) == [c EXCEPT !.sp = v]
\* Mutant of set_tls: the register keeps its value.
set_tls_Keep(c, v) == c

set_tls(c, v) == [c EXCEPT !.tls = v]
\* Mutant of set_syscall_ret: the register keeps its value.
set_syscall_ret_Keep(c, v) == c

set_syscall_ret(c, v) == [c EXCEPT !.ret = v]

----------------------------------------------------------------------------
(* The user image loader: Thread::new_user_vm *)

\* What the loader can see of an executable inode.
Inodes ==
    [read_ok : BOOLEAN, elf_ok : BOOLEAN,
     type : {"Executable", "SharedObject", "Core"},
     machine : {"X86_64", "Mips"},
     interp : {"none", "not_found", "read_fail", "bad_elf", "ok"},
     entry : {1}, interp_entry : {2}]

\* MemorySet::new(): no region.  A memory set is the set of its regions.
MemorySetNew == {}
\* The regions one call of new_user_vm can map, and the memory sets a caller
\* can pass in: a fresh one, or one that holds an earlier region.
LoaderRegions == {"elf", "interp", "user_stack_delay", "user_stack"}
CallerMemorySets == SUBSET {"old"}

\* vm.clear()
MemorySetClear(vm) == {}

\* vm.push(.., name) and the mapping helpers: the memory set gains a region
MemorySetPush(vm, name) == vm \cup {name}

\* elf.make_memory_set(vm, inode): maps the loadable segments, returns the bias
make_memory_set_bias(inode) == IF inode.type = "SharedObject" THEN PieBias ELSE 0

\* init_info.push_at(ustack_top): the stack pointer below the init info
push_at(top, args, envs, auxv) == top - (1 + Len(args) + Len(envs))

\* Mutant of LoadErr: the memory set is emptied on an error.
LoadErr_Cleared(msg, vm) == [err |-> msg, vm |-> {}, entry |-> 0, sp |-> 0]

\* return Err(msg): the message, and the memory set as the call leaves it
LoadErr(msg, vm) == [err |-> msg, vm |-> vm, entry |-> 0, sp |-> 0]

\* After vm.clear() and make_memory_set: interpreter, stack, init info.
new_user_vm_mapped(inode, args, envs, vm1) ==
    LET bias == make_memory_set_bias(inode)
        has_interp == inode.interp # "none"
        vm2 == IF has_interp THEN MemorySetPush(vm1, "interp") ELSE vm1
        entry_addr == IF has_interp THEN inode.interp_entry + bias ELSE inode.entry
        auxv == IF has_interp THEN {"AT_PHENT", "AT_PHNUM", "AT_PAGESZ", "AT_ENTRY", "AT_BASE"}
                ELSE {"AT_PHENT", "AT_PHNUM", "AT_PAGESZ"}
        vm3 == MemorySetPush(MemorySetPush(vm2, "user_stack_delay"), "user_stack")
    IN  IF inode.interp = "not_found" THEN LoadErr("interpreter not found", vm1)
        ELSE IF inode.interp = "read_fail" THEN LoadErr("failed to read from INode", vm1)
        ELSE IF inode.interp = "bad_elf" THEN LoadErr("bad interpreter ELF", vm1)
        ELSE [err |-> "", vm |-> vm3, entry |-> entry_addr,
              sp |-> push_at(UStackTop, args, envs, auxv)]

\* Thread::new_user_vm(inode, args, envs, vm): the outcome and the memory set
\* the caller's &mut vm refers to when the call returns.
new_user_vm(inode, args, envs, vm) ==
    IF ~inode.read_ok THEN LoadErr("failed to read from INode", vm)
    ELSE IF ~inode.elf_ok THEN LoadErr("bad ELF", vm)
    ELSE IF inode.type \notin {"Executable", "SharedObject"}
         THEN LoadErr("ELF is not executable or shared object", vm)
    ELSE IF inode.machine # "X86_64" THEN LoadErr("invalid ELF arch", vm)
    ELSE new_user_vm_mapped(inode, args, envs, MemorySetPush(MemorySetClear(vm), "elf"))

----------------------------------------------------------------------------
(* Records *)

\* The file table new_user builds: fds 0, 1, 2 on the TTY.
InitialFiles == [fd \in 0..2 |-> IF fd = 0 THEN "tty_r" ELSE "tty_w"]

\* The task of a thread that spawn has not been called on.
NoTask == [pc |-> "unspawned", vmtoken |-> 0, cx |-> None, exit |-> FALSE,
           handled |-> <<>>]

IdleCpu == [pc |-> "idle", t |-> 0, res |-> "none"]

\* A CPU on which no creation call is in progress.
IdleCall == [op |-> "idle", pc |-> "idle", self |-> 0, context |-> None,
             vm |-> 0, proc |-> 0, thread |-> None, res |-> 0]

Registered == {THREADS[k] : k \in DOMAIN THREADS}

----------------------------------------------------------------------------
(* Thread::add_to_table *)

\* Mutant of FindFree: one past the largest key instead of the first free key.
FindFree_PastLargest(table, i) ==
    IF DOMAIN table = {} THEN i
    ELSE (CHOOSE m \in DOMAIN table : \A k \in DOMAIN table : k <= m) + 1

\* (Pid::INIT..).find(|i| thread_table.get(i).is_none()).unwrap()
RECURSIVE FindFree(_, _)
FindFree(table, i) == IF i \notin DOMAIN table THEN i ELSE FindFree(table, i + 1)

\* BTreeMap::insert
MapInsert(table, k, v) == [x \in DOMAIN table \cup {k} |-> IF x = k THEN v ELSE table[x]]

\* Mutant of add_to_table: the record keeps the tid it was constructed with.
add_to_table_KeepTid(heap, table, thread) ==
    LET tid == FindFree(table, INIT)
        self_ref == Len(heap) + 1
    IN  [threads |-> Append(heap, thread),
         THREADS |-> MapInsert(table, tid, self_ref),
         self_ref |-> self_ref,
         tid |-> tid]

\* add_to_table(self): under the write lock of THREADS, pick the tid, store it
\* in the record, wrap the record in an Arc and insert it.  The result is the
\* new thread heap, the new table and the handle.
add_to_table(heap, table, thread) ==
    LET tid == FindFree(table, INIT)
        self_ref == Len(heap) + 1
    IN  [threads |-> Append(heap, [thread EXCEPT !.tid = tid]),
         THREADS |-> MapInsert(table, tid, self_ref),
         self_ref |-> self_ref,
         tid |-> tid]

\* Mutant of Pid: the pid is one past the tid.
Pid_Next(tid) == tid + 1

\* Pid(res.tid), Pid(new_thread.tid): the pid made from the tid of the thread
Pid(tid) == tid

\* super::add_to_process_table(proc, pid): set the pid, insert in PROCESSES
add_to_process_table(heap, table, proc, pid) ==
    [procs |-> [heap EXCEPT ![proc].pid = pid],
     PROCESSES |-> MapInsert(table, pid, proc)]

----------------------------------------------------------------------------
(* Creation operations *)

ExecPaths == {"/bin/sh", "/bin/ls"}
ArgVecs == {<<"a">>}
EnvVecs == {<<>>}

\* The kernel stops at a panic: no operation runs after it.
Running == kpanic = ""

\* The Thread new_user builds from the outcome of the loader, before it has
\* a tid.
NewUserThread(r, vm, proc) ==
    [tid |-> 0,
     context |-> Some([set_sp(set_ip(DefaultContext, r.entry), r.sp)
                          EXCEPT !.rflags = RFLAGS]),
     clear_child_tid |-> 0, vm |-> vm, proc |-> proc, sig_mask |-> 0]

\* The Process new_user builds.
NewUserProcess(vm, exec_path) ==
    [vm |-> vm, files |-> InitialFiles, cwd |-> "/",
     exec_path |-> exec_path, futexes |-> {},
     semaphores |-> {}, pid |-> PidNew, pgid |-> 0,
     parent |-> <<PidNew, None>>, children |-> <<>>,
     threads |-> <<>>, exit_code |-> 0, pending_sigset |-> {},
     sig_queue |-> <<>>, dispositions |-> "default",
     sigaltstack |-> "default", eventbus |-> "new"]

\* Thread::new_user(inode, exec_path, args, envs)
NewUser(inode, exec_path, args, envs) ==
    /\ Running
    /\ LET r == new_user_vm(inode, args, envs, MemorySetNew)
           vm == Len(vms) + 1
           proc == Len(procs) + 1
           thread == NewUserThread(r, vm, proc)
           process == NewUserProcess(vm, exec_path)
           res == add_to_table(threads, THREADS, thread)
           reg == add_to_process_table(Append(procs, process), PROCESSES, proc, Pid(res.tid))
       IN  IF r.err # ""
           THEN \* .unwrap() of the Err
                /\ kpanic' = r.err
                /\ UNCHANGED <<threads, procs, vms, THREADS, PROCESSES, task>>
           ELSE /\ vms' = Append(vms, r.vm)
                /\ threads' = res.threads
                /\ THREADS' = res.THREADS
                /\ procs' = reg.procs
                /\ PROCESSES' = reg.PROCESSES
                /\ task' = Append(task, NoTask)
                /\ UNCHANGED kpanic
    /\ UNCHANGED <<PROCESSORS, pageTable, cpu, load, call>>

\* Mutant of link_to_parent: the parent's children list is left alone.
link_to_parent_Skip(heap, parent, child_pid, new_proc) == heap

\* proc.children.push((child_pid, Arc::downgrade(&new_thread.proc)))
link_to_parent(heap, parent, child_pid, new_proc) ==
    [heap EXCEPT ![parent].children = Append(@, <<child_pid, Some(new_proc)>>)]

\* The trap frames fork and new_clone are called with.
TrapFrames ==
    {[ip |-> 1, sp |-> 6, tls |-> 0, ret |-> r, rflags |-> RFLAGS, trap_num |-> T_SYSCALL]
        : r \in {0, 57}}

\* Mutant of ForkProcess: the child keeps the parent's futexes and signals.
ForkProcess_KeepPending(proc, vm, self_proc) ==
    [proc EXCEPT !.vm = vm, !.pid = PidNew,
                 !.parent = <<proc.pid, Some(self_proc)>>,
                 !.children = <<>>, !.threads = <<>>, !.exit_code = 0,
                 !.sigaltstack = "default", !.eventbus = "new"]

\* The Process fork builds for the child from the locked process of self.
ForkProcess(proc, vm, self_proc) ==
    [vm |-> vm, files |-> proc.files, cwd |-> proc.cwd,
     exec_path |-> proc.exec_path, futexes |-> {},
     semaphores |-> proc.semaphores, pid |-> PidNew,
     pgid |-> proc.pgid,
     parent |-> <<proc.pid, Some(self_proc)>>,
     children |-> <<>>, threads |-> <<>>, exit_code |-> 0,
     pending_sigset |-> {}, sig_queue |-> <<>>,
     dispositions |-> proc.dispositions,
     sigaltstack |-> "default", eventbus |-> "new"]

\* Mutant of ForkVm: the child gets a handle of the parent's memory set.
ForkVm_Share(heap, self_vm) == self_vm

\* let vm = self.vm.lock().clone(); let vm = Arc::new(Mutex::new(vm)): the
\* handle of the copy, a new object of the heap
ForkVm(heap, self_vm) == Len(heap) + 1

\* self.fork(tf)
Fork(self, tf) ==
    /\ Running
    /\ LET vm == ForkVm(vms, threads[self].vm)
           context == set_syscall_ret(tf, 0)
           proc == procs[threads[self].proc]
           new_proc == Len(procs) + 1
           process == ForkProcess(proc, vm, threads[self].proc)
           new_thread == add_to_table(threads, THREADS,
                           [tid |-> 0, context |-> Some(context), clear_child_tid |-> 0,
                            vm |-> vm, proc |-> new_proc,
                            sig_mask |-> threads[self].sig_mask])
           child_pid == Pid(new_thread.tid)
           reg == add_to_process_table(Append(procs, process), PROCESSES,
                                       new_proc, Pid(new_thread.tid))
           linked == [reg.procs EXCEPT ![new_proc].threads = Append(@, new_thread.tid)]
       IN  /\ vms' = Append(vms, vms[threads[self].vm])
           /\ threads' = new_thread.threads
           /\ THREADS' = new_thread.THREADS
           /\ PROCESSES' = reg.PROCESSES
           /\ procs' = link_to_parent(linked, threads[self].proc, child_pid, new_proc)
           /\ task' = Append(task, NoTask)
    /\ UNCHANGED <<PROCESSORS, pageTable, cpu, kpanic, load, call>>

StackTops == {7}
TlsValues == {5}
ChildTidAddrs == {0, 9}

\* Mutant of ArcClone: a handle of the first object of the heap.
ArcClone_First(handle) == 1

\* Arc::clone (self.vm.clone(), self.proc.clone()): one more handle of the
\* same object
ArcClone(handle) == handle

\* self.new_clone(context, stack_top, tls, clear_child_tid)
NewClone(self, context, stack_top, tls, clear_child_tid) ==
    /\ Running
    /\ LET new_context == set_tls(set_sp(set_syscall_ret(context, 0), stack_top), tls)
           res == add_to_table(threads, THREADS,
                    [tid |-> 0, clear_child_tid |-> clear_child_tid,
                     context |-> Some(new_context),
                     vm |-> ArcClone(threads[self].vm),
                     proc |-> ArcClone(threads[self].proc),
                     sig_mask |-> threads[self].sig_mask])
       IN  /\ threads' = res.threads
           /\ THREADS' = res.THREADS
           /\ procs' = [procs EXCEPT ![res.threads[res.self_ref].proc].threads =
                                        Append(@, res.tid)]
           /\ task' = Append(task, NoTask)
    /\ UNCHANGED <<vms, PROCESSES, PROCESSORS, pageTable, cpu, kpanic, load, call>>


----------------------------------------------------------------------------
(* spawn: the run-loop task and its wrapper *)

\* The trap numbers cx.run comes back with: every number the loop tells apart
\* (0x100, the ends of 0x20..=0x3f, 0x20, 0x24, 0xe), each with its neighbours.
UserTraps ==
    UNION {{n - 1, n, n + 1} :
             n \in {T_SYSCALL, T_IRQ_FIRST, T_COM1, T_IRQ_LAST, T_PAGE_FAULT}}
\* One trap number of each arm of the match.
RunTraps == {T_SYSCALL, T_IRQ_FIRST, T_PAGE_FAULT, T_IRQ_LAST + 1}

\* Mutant of IsIrq: the range stops short of its last number.
IsIrq_Exclusive(trap_num) == T_IRQ_FIRST <= trap_num /\ trap_num < T_IRQ_LAST

\* 0x20..=0x3f
IsIrq(trap_num) == T_IRQ_FIRST <= trap_num /\ trap_num <= T_IRQ_LAST

Spawned == {t \in 1..Len(task) : task[t].pc # "unspawned"}

\* The CPU on which the inner future of t's task is being polled, if any.
PollingCpus(t) == {c \in Cpus : cpu[c].pc # "idle" /\ cpu[c].t = t}
InnerPolled(t) == \E c \in Cpus : cpu[c].pc = "inner" /\ cpu[c].t = t

\* spawn(thread): capture the token, build the future, hand the wrapped task
\* to the executor.
Spawn(thread) ==
    /\ Running
    /\ thread \in Registered
    /\ task[thread].pc = "unspawned"
    /\ task' = [task EXCEPT ![thread] =
                   [NoTask EXCEPT !.pc = "begin", !.vmtoken = threads[thread].vm]]
    /\ UNCHANGED <<threads, procs, vms, THREADS, PROCESSES, PROCESSORS, pageTable,
                   cpu, kpanic, load, call>>

\* Mutant of set_page_table: the CPU keeps the token it had.
set_page_table_Keep(tables, c, token) == tables

\* set_page_table(self.vmtoken)
set_page_table(tables, c, token) == [tables EXCEPT ![c] = token]

\* PageTableSwitchWrapper::poll up to the poll of the inner future: the executor
\* polls a task that is not finished and not being polled, on a CPU that is not
\* inside a poll.  PROCESSORS[cpu_id] = Some(self.thread.clone());
\* set_page_table(self.vmtoken)
PollEnter(c, t) ==
    /\ Running
    /\ cpu[c].pc = "idle"
    /\ t \in Spawned
    /\ task[t].pc # "done"
    /\ PollingCpus(t) = {}
    /\ PROCESSORS' = [PROCESSORS EXCEPT ![c] = Some(t)]
    /\ pageTable' = set_page_table(pageTable, c, task[t].vmtoken)
    /\ cpu' = [cpu EXCEPT ![c] = [pc |-> "inner", t |-> t, res |-> "none"]]
    /\ UNCHANGED <<threads, procs, vms, THREADS, PROCESSES, task, kpanic, load, call>>

\* Mutant of clear_current: the slot keeps the thread.
clear_current_Keep(slots, c) == slots

\* PROCESSORS[cpu_id] = None
clear_current(slots, c) == [slots EXCEPT ![c] = None]

\* PageTableSwitchWrapper::poll after the poll of the inner future:
\* PROCESSORS[cpu_id] = None; res
PollExit(c) ==
    /\ Running
    /\ cpu[c].pc = "exit"
    /\ PROCESSORS' = clear_current(PROCESSORS, c)
    /\ cpu' = [cpu EXCEPT ![c] = IdleCpu]
    /\ UNCHANGED <<threads, procs, vms, THREADS, PROCESSES, pageTable, task,
                   kpanic, load, call>>

\* The inner future of t is being polled on c and stands at pc.
At(c, t, pc) == Running /\ cpu[c].pc = "inner" /\ cpu[c].t = t /\ task[t].pc = pc

\* Mutant of begin_running: the context is copied out, not taken.
begin_running_Copy(heap, t) == heap

\* self.inner.lock().context.take(): what is left in the thread record
begin_running(heap, t) == [heap EXCEPT ![t].context = None]

\* let mut cx = thread.begin_running(); cx.run(); let mut exit = false;
\* begin_running is self.inner.lock().context.take().unwrap(); cx.run() is user
\* mode until a trap, and comes back with trap_num set.
RunUser(c, t, trap_num) ==
    /\ At(c, t, "begin")
    /\ IF IsSome(threads[t].context)
       THEN /\ task' = [task EXCEPT
                          ![t].cx = Some([Unwrap(threads[t].context)
                                            EXCEPT !.trap_num = trap_num]),
                          ![t].pc = "trap",
                          ![t].exit = FALSE,
                          ![t].handled = <<>>]
            /\ threads' = begin_running(threads, t)
            /\ UNCHANGED kpanic
       ELSE /\ kpanic' = "begin_running: unwrap on None"
            /\ UNCHANGED <<task, threads>>
    /\ UNCHANGED <<procs, vms, THREADS, PROCESSES, PROCESSORS, pageTable, cpu, load, call>>

\* Mutant of end_running: the context is dropped.
end_running_Drop(heap, t, cx) == heap

\* thread.end_running(cx): self.inner.lock().context = Some(cx)
end_running(heap, t, cx) == [heap EXCEPT ![t].context = Some(cx)]

\* The rest of a round once the arm of the match is through, with the handlers
\* the arm has called:  thread.end_running(cx); if exit { break; }
\* With the flag set the future completes and the inner poll returns Ready,
\* otherwise the loop goes round.
FinishRound(c, t, handlers, exit) ==
    /\ threads' = end_running(threads, t, Unwrap(task[t].cx))
    /\ task' = [task EXCEPT ![t].cx = None,
                            ![t].exit = exit,
                            ![t].handled = @ \o handlers,
                            ![t].pc = IF exit THEN "done" ELSE "begin"]
    /\ cpu' = IF exit THEN [cpu EXCEPT ![c].pc = "exit", ![c].res = "Ready"] ELSE cpu
    /\ UNCHANGED <<procs, vms, THREADS, PROCESSES, PROCESSORS, pageTable,
                   kpanic, load, call>>

\* The run-loop of t, polled on c, is inside handle_syscall(&thread, &mut cx),
\* entered now or suspended at the await and polled again.
InSyscall(c, t) ==
    \/ At(c, t, "trap") /\ Unwrap(task[t].cx).trap_num = T_SYSCALL
    \/ At(c, t, "syscall")

\* The call of handle_syscall in a round: made when the arm is entered, not
\* when the suspended loop is polled again.
HandleSyscallCall(t) == IF task[t].pc = "trap" THEN <<"syscall">> ELSE <<>>

\* 0x100 => exit = handle_syscall(&thread, &mut cx).await: the handler is not
\* ready, the inner poll returns Pending with the loop suspended at the await
SyscallPending(c, t) ==
    /\ InSyscall(c, t)
    /\ task' = [task EXCEPT ![t].pc = "syscall",
                             ![t].handled = @ \o HandleSyscallCall(t)]
    /\ cpu' = [cpu EXCEPT ![c].pc = "exit", ![c].res = "Pending"]
    /\ UNCHANGED <<threads, procs, vms, THREADS, PROCESSES, PROCESSORS, pageTable,
                   kpanic, load, call>>

\* 0x100 => exit = handle_syscall(&thread, &mut cx).await: the handler is ready
\* with its flag, at once or when the task is polled again
SyscallReturn(c, t, exit) ==
    /\ InSyscall(c, t)
    /\ FinishRound(c, t, HandleSyscallCall(t), exit)

\* The handlers of the 0x20..=0x3f arm
IrqHandlers(trap_num) ==
    <<"eoi">> \o (IF trap_num = T_IRQ_FIRST THEN <<"timer">> ELSE <<>>)
              \o (IF trap_num = T_COM1 THEN <<"serial">> ELSE <<>>)

\* Mutant of HandleIrq: an IRQ sets the exit flag.
HandleIrq_Exit(c, t) ==
    /\ At(c, t, "trap")
    /\ IsIrq(Unwrap(task[t].cx).trap_num)
    /\ FinishRound(c, t, IrqHandlers(Unwrap(task[t].cx).trap_num), TRUE)

\* 0x20..=0x3f => lapic.eoi(), timer, serial
HandleIrq(c, t) ==
    /\ At(c, t, "trap")
    /\ IsIrq(Unwrap(task[t].cx).trap_num)
    /\ FinishRound(c, t, IrqHandlers(Unwrap(task[t].cx).trap_num), task[t].exit)

\* 0xe => thread.vm.lock().handle_page_fault(addr)
HandlePageFault(c, t) ==
    /\ At(c, t, "trap")
    /\ Unwrap(task[t].cx).trap_num = T_PAGE_FAULT
    /\ FinishRound(c, t, <<"page_fault">>, task[t].exit)

\* _ => {}
HandleOther(c, t) ==
    /\ At(c, t, "trap")
    /\ LET trap_num == Unwrap(task[t].cx).trap_num
       IN  trap_num # T_SYSCALL /\ ~IsIrq(trap_num) /\ trap_num # T_PAGE_FAULT
    /\ FinishRound(c, t, <<>>, task[t].exit)

\* One step of the run-loop of t, polled on c, with the traps drawn from traps.
RunLoop(c, t, traps) ==
    \/ \E trap_num \in traps : RunUser(c, t, trap_num)
    \/ SyscallPending(c, t)
    \/ \E exit \in BOOLEAN : SyscallReturn(c, t, exit)
    \/ HandleIrq(c, t)
    \/ HandlePageFault(c, t)
    \/ HandleOther(c, t)

Wrapper(c) ==
    \/ \E t \in 1..Len(task) : PollEnter(c, t)
    \/ PollExit(c)

----------------------------------------------------------------------------
(* Specification of the creation operations *)

Init ==
    /\ threads = <<>>
    /\ procs = <<>>
    /\ vms = <<>>
    /\ THREADS = <<>>
    /\ PROCESSES = <<>>
    /\ PROCESSORS = [c \in Cpus |-> None]
    /\ pageTable = [c \in Cpus |-> 0]
    /\ task = <<>>
    /\ cpu = [c \in Cpus |-> IdleCpu]
    /\ kpanic = ""
    /\ load = [inode |-> None, vm0 |-> {}, out |-> None]
    /\ call = [c \in Cpus |-> IdleCall]

\* One creation call, with its inputs drawn from the given sets.
CreateWith(inodes, exec_paths, frames, child_tid_addrs) ==
    \/ \E inode \in inodes, exec_path \in exec_paths, args \in ArgVecs, envs \in EnvVecs :
          NewUser(inode, exec_path, args, envs)
    \/ \E self \in Registered, tf \in frames : Fork(self, tf)
    \/ \E self \in Registered, context \in frames, stack_top \in StackTops,
          tls \in TlsValues, clear_child_tid \in child_tid_addrs :
          NewClone(self, context, stack_top, tls, clear_child_tid)

Create ==
    /\ Len(threads) < MaxThreads
    /\ CreateWith(Inodes, ExecPaths, TrapFrames, ChildTidAddrs)

Next == Create

Spec == Init /\ [][Next]_vars

----------------------------------------------------------------------------
(* Specification of the running system: threads are created, spawned, and  *)
(* their tasks polled on the CPUs.                                         *)

\* A static executable.
RunInodes ==
    {i \in Inodes :
        /\ i.read_ok /\ i.elf_ok /\ i.type = "Executable" /\ i.machine = "X86_64"
        /\ i.interp = "none"}

\* sys_fork, sys_clone: the calls of fork and new_clone by the running thread
SysFork(c, t) == InSyscall(c, t) /\ Fork(t, Unwrap(task[t].cx))
SysClone(c, t, stack_top, tls, clear_child_tid) ==
    InSyscall(c, t) /\ NewClone(t, Unwrap(task[t].cx), stack_top, tls, clear_child_tid)

\* The kernel loads a program at any time; fork and new_clone are called by a
\* running thread from handle_syscall, on the context in its run-loop's frame.
CreateRun ==
    /\ Len(threads) < MaxRunThreads
    /\ \/ \E inode \in RunInodes, args \in ArgVecs, envs \in EnvVecs :
             NewUser(inode, "/bin/sh", args, envs)
       \/ \E c \in Cpus, t \in 1..Len(task) : SysFork(c, t)
       \/ \E c \in Cpus, t \in 1..Len(task), stack_top \in StackTops, tls \in TlsValues :
             SysClone(c, t, stack_top, tls, 0)

NextRun ==
    \/ CreateRun
    \/ \E thread \in 1..Len(threads) : Spawn(thread)
    \/ \E c \in Cpus : Wrapper(c)
    \/ \E c \in Cpus, t \in 1..Len(task) : RunLoop(c, t, RunTraps)

SpecRun == Init /\ [][NextRun]_vars

----------------------------------------------------------------------------
(* Specification of the run-loop under every kind of trap: the threads of   *)
(* new_user are spawned and polled, and cx.run comes back with any of       *)
(* UserTraps.                                                               *)

CreateTrap ==
    /\ Len(threads) < MaxTrapThreads
    /\ \E inode \in RunInodes, args \in ArgVecs, envs \in EnvVecs :
          NewUser(inode, "/bin/sh", args, envs)

NextTrap ==
    \/ CreateTrap
    \/ \E thread \in 1..Len(threads) : Spawn(thread)
    \/ \E c \in Cpus : Wrapper(c)
    \/ \E c \in Cpus, t \in 1..Len(task) : RunLoop(c, t, UserTraps)

SpecTrap == Init /\ [][NextTrap]_vars

----------------------------------------------------------------------------
(* Specification of add_to_table on any table content: the table holds the *)
(* threads that are left after others have exited, so its keys may have    *)
(* gaps.  Each initial thread heads its own process.                       *)

RECURSIVE SortedKeys(_)
SortedKeys(K) ==
    IF K = {} THEN <<>>
    ELSE LET m == CHOOSE x \in K : \A y \in K : x <= y
         IN  <<m>> \o SortedKeys(K \ {m})

InitTable ==
    \E K \in SUBSET (INIT..MaxKey) :
       /\ Cardinality(K) < MaxThreads
       /\ LET keys == SortedKeys(K)
              n == Len(keys)
          IN  /\ threads = [i \in 1..n |->
                    [tid |-> keys[i], context |-> Some(DefaultContext),
                     clear_child_tid |-> 0, vm |-> i, proc |-> i, sig_mask |-> 0]]
              /\ procs = [i \in 1..n |->
                    [vm |-> i, files |-> InitialFiles, cwd |-> "/",
                     exec_path |-> "/bin/sh", futexes |-> {},
                     semaphores |-> {}, pid |-> keys[i], pgid |-> 0,
                     parent |-> <<PidNew, None>>, children |-> <<>>,
                     threads |-> <<>>, exit_code |-> 0, pending_sigset |-> {},
                     sig_queue |-> <<>>, dispositions |-> "default",
                     sigaltstack |-> "default", eventbus |-> "new"]]
              /\ vms = [i \in 1..n |-> {"elf", "user_stack_delay", "user_stack"}]
              /\ THREADS = [k \in K |-> CHOOSE i \in 1..n : keys[i] = k]
              /\ PROCESSES = [k \in K |-> CHOOSE i \in 1..n : keys[i] = k]
              /\ task = [i \in 1..n |-> NoTask]
       /\ PROCESSORS = [c \in Cpus |-> None]
       /\ pageTable = [c \in Cpus |-> 0]
       /\ cpu = [c \in Cpus |-> IdleCpu]
       /\ kpanic = ""
       /\ load = [inode |-> None, vm0 |-> {}, out |-> None]
       /\ call = [c \in Cpus |-> IdleCall]

SpecTable == InitTable /\ [][Create]_vars

----------------------------------------------------------------------------
(* Specification of the loader alone: one call of new_user_vm on any inode *)
(* and any memory set a caller passes in.                                  *)

InitLoader ==
    /\ threads = <<>>
    /\ procs = <<>>
    /\ vms = <<>>
    /\ THREADS = <<>>
    /\ PROCESSES = <<>>
    /\ PROCESSORS = [c \in Cpus |-> None]
    /\ pageTable = [c \in Cpus |-> 0]
    /\ task = <<>>
    /\ cpu = [c \in Cpus |-> IdleCpu]
    /\ kpanic = ""
    /\ \E inode \in Inodes, vm \in CallerMemorySets :
          load = [inode |-> Some(inode), vm0 |-> vm, out |-> None]
    /\ call = [c \in Cpus |-> IdleCall]

LoadCall ==
    /\ load.out = None
    /\ \E args \in ArgVecs, envs \in EnvVecs :
          load' = [load EXCEPT !.out =
                      Some(new_user_vm(Unwrap(load.inode), args, envs, load.vm0))]
    /\ UNCHANGED <<threads, procs, vms, THREADS, PROCESSES, PROCESSORS, pageTable,
                   task, cpu, kpanic, call>>

SpecLoader == InitLoader /\ [][LoadCall]_vars

----------------------------------------------------------------------------
(* Specification of the creation calls made from handle_syscall: a thread   *)
(* made by new_user runs, traps with a syscall and calls fork and new_clone *)
(* on the context in the frame of its run-loop.  Its process is as new_user *)
(* made it, or as earlier syscalls have left it.                            *)

\* The contexts cx.run comes back with at a syscall: on x86_64 the
\* syscall-return register holds the syscall number (clone, fork).
SyscallFrames ==
    {[ip |-> 1, sp |-> 6, tls |-> tls, ret |-> nr, rflags |-> RFLAGS,
      trap_num |-> T_SYSCALL] : tls \in {0, 3}, nr \in {56, 57}}

\* The process new_user makes, and one that has opened a file, changed its
\* directory and group, installed handlers and has signals and waiters pending.
SyscallProcesses ==
    {[vm |-> 1, files |-> InitialFiles, cwd |-> "/", exec_path |-> "/bin/sh",
      futexes |-> {}, semaphores |-> {}, pid |-> INIT, pgid |-> 0,
      parent |-> <<PidNew, None>>, children |-> <<>>, threads |-> <<>>,
      exit_code |-> 0, pending_sigset |-> {}, sig_queue |-> <<>>,
      dispositions |-> "default", sigaltstack |-> "default", eventbus |-> "new"],
     [vm |-> 1, files |-> [fd \in 0..3 |-> IF fd = 3 THEN "file" ELSE InitialFiles[fd]],
      cwd |-> "/tmp", exec_path |-> "/bin/sh",
      futexes |-> {9}, semaphores |-> {"sem"}, pid |-> INIT, pgid |-> 2,
      parent |-> <<PidNew, None>>, children |-> <<>>, threads |-> <<>>,
      exit_code |-> 0, pending_sigset |-> {"SIGUSR1"}, sig_queue |-> <<"SIGUSR1">>,
      dispositions |-> "handlers", sigaltstack |-> "set", eventbus |-> "used"]}

InitSyscall ==
    /\ \E process \in SyscallProcesses : procs = <<process>>
    /\ threads = <<[tid |-> INIT, context |-> None, clear_child_tid |-> 0,
                    vm |-> 1, proc |-> 1, sig_mask |-> 0]>>
    /\ vms = <<{"elf", "user_stack_delay", "user_stack"}>>
    /\ THREADS = (INIT :> 1)
    /\ PROCESSES = (INIT :> 1)
    /\ \E frame \in SyscallFrames :
          task = <<[pc |-> "trap", vmtoken |-> 1, cx |-> Some(frame),
                    exit |-> FALSE, handled |-> <<>>]>>
    /\ \E c \in Cpus :
          /\ cpu = [d \in Cpus |-> IF d = c THEN [pc |-> "inner", t |-> 1, res |-> "none"]
                                   ELSE IdleCpu]
          /\ PROCESSORS = [d \in Cpus |-> IF d = c THEN Some(1) ELSE None]
          /\ pageTable = [d \in Cpus |-> IF d = c THEN 1 ELSE 0]
    /\ kpanic = ""
    /\ load = [inode |-> None, vm0 |-> {}, out |-> None]
    /\ call = [c \in Cpus |-> IdleCall]

CreateSyscall ==
    /\ Len(threads) < MaxThreads
    /\ \E c \in Cpus, t \in 1..Len(task) :
          \/ SysFork(c, t)
          \/ \E stack_top \in StackTops, tls \in TlsValues,
                clear_child_tid \in ChildTidAddrs :
                SysClone(c, t, stack_top, tls, clear_child_tid)

SpecSyscall == InitSyscall /\ [][CreateSyscall]_vars

----------------------------------------------------------------------------
(* Specification of concurrent creation calls, lock by lock: each CPU runs  *)
(* one call of new_user, fork or new_clone at a time, and a call is a       *)
(* sequence of steps, one per lock it takes.  A lock that is taken and      *)
(* released inside one statement, with no other lock taken meanwhile, is    *)
(* one step that waits for the lock to be free.                             *)

Busy(c) == call[c].op # "idle"

\* Mutant of HoldsThreads: the write guard lives until the caller has pushed
\* the tid.
HoldsThreads_UntilPush(c) == call[c].pc \in {"in_table", "registered"}

\* let mut thread_table = THREADS.write(): the guard is alive on c, from the
\* first line of add_to_table to its return
HoldsThreads(c) == call[c].pc = "in_table"

\* let mut proc = self.proc.lock(): the guard of process p is alive on c, from
\* line 333 of fork to its return
HoldsProc(c, p) ==
    /\ call[c].op = "fork"
    /\ call[c].pc \in {"table", "in_table", "registered", "push_tid"}
    /\ threads[call[c].self].proc = p

ThreadsFree == \A c \in Cpus : ~HoldsThreads(c)
ProcFree(p) == \A c \in Cpus : ~HoldsProc(c, p)

\* The Thread objects there are or will be: the registered ones and the ones
\* of the calls that have not reached add_to_table's insert.
Allocated ==
    Len(threads) + Cardinality({c \in Cpus : Busy(c) /\ call[c].res = 0})

\* A call starts on an idle CPU; fork and new_clone are called on a thread that
\* is not inside another call and whose own creation call has returned.
CanCall(c) == Running /\ ~Busy(c) /\ Allocated < MaxLockThreads
CanCallOn(c, self) ==
    /\ CanCall(c)
    /\ self \in Registered
    /\ \A d \in Cpus : Busy(d) => call[d].self # self /\ call[d].res # self

\* new_user up to the call of add_to_table: the loader on a local memory set,
\* the Arcs of the memory set and of the process, the Thread record
StartNewUser(c, inode, exec_path, args, envs) ==
    /\ CanCall(c)
    /\ LET r == new_user_vm(inode, args, envs, MemorySetNew)
           vm == Len(vms) + 1
           proc == Len(procs) + 1
       IN  IF r.err # ""
           THEN /\ kpanic' = r.err
                /\ UNCHANGED <<vms, procs, call>>
           ELSE /\ vms' = Append(vms, r.vm)
                /\ procs' = Append(procs, NewUserProcess(vm, exec_path))
                /\ call' = [call EXCEPT ![c] =
                              [IdleCall EXCEPT !.op = "new_user", !.pc = "table",
                                 !.vm = vm, !.proc = proc,
                                 !.thread = Some(NewUserThread(r, vm, proc))]]
                /\ UNCHANGED kpanic
    /\ UNCHANGED <<threads, THREADS, PROCESSES, PROCESSORS, pageTable, task, cpu,
                   load>>

\* fork up to self.proc.lock(): the copy of the memory set, made under the lock
\* of self.vm, and the context of the child
StartFork(c, self, tf) ==
    /\ CanCallOn(c, self)
    /\ vms' = Append(vms, vms[threads[self].vm])
    /\ call' = [call EXCEPT ![c] =
                  [IdleCall EXCEPT !.op = "fork", !.pc = "lock_proc", !.self = self,
                     !.vm = ForkVm(vms, threads[self].vm),
                     !.context = Some(set_syscall_ret(tf, 0))]]
    /\ UNCHANGED <<threads, procs, THREADS, PROCESSES, PROCESSORS, pageTable,
                   task, cpu, kpanic, load>>

\* let mut proc = self.proc.lock(), then the child Process and the child Thread
ForkLockProc(c) ==
    /\ Running /\ call[c].op = "fork" /\ call[c].pc = "lock_proc"
    /\ ProcFree(threads[call[c].self].proc)
    /\ LET self == call[c].self
           new_proc == Len(procs) + 1
       IN  /\ procs' = Append(procs, ForkProcess(procs[threads[self].proc],
                                                  call[c].vm, threads[self].proc))
           /\ call' = [call EXCEPT ![c].pc = "table", ![c].proc = new_proc,
                          ![c].thread =
                             Some([tid |-> 0, context |-> call[c].context,
                                   clear_child_tid |-> 0, vm |-> call[c].vm,
                                   proc |-> new_proc,
                                   sig_mask |-> threads[self].sig_mask])]
    /\ UNCHANGED <<threads, vms, THREADS, PROCESSES, PROCESSORS, pageTable,
                   task, cpu, kpanic, load>>

\* new_clone up to the call of add_to_table: the token read under the lock of
\* self.vm, the context and the Thread record
StartClone(c, self, context, stack_top, tls, clear_child_tid) ==
    /\ CanCallOn(c, self)
    /\ call' = [call EXCEPT ![c] =
                  [IdleCall EXCEPT !.op = "new_clone", !.pc = "table", !.self = self,
                     !.thread =
                        Some([tid |-> 0, clear_child_tid |-> clear_child_tid,
                              context |-> Some(set_tls(set_sp(
                                             set_syscall_ret(context, 0),
                                             stack_top), tls)),
                              vm |-> ArcClone(threads[self].vm),
                              proc |-> ArcClone(threads[self].proc),
                              sig_mask |-> threads[self].sig_mask])]]
    /\ UNCHANGED <<threads, procs, vms, THREADS, PROCESSES, PROCESSORS, pageTable,
                   task, cpu, kpanic, load>>

\* add_to_table: let mut thread_table = THREADS.write()
AddToTableLock(c) ==
    /\ Running /\ call[c].pc = "table"
    /\ ThreadsFree
    /\ call' = [call EXCEPT ![c].pc = "in_table"]
    /\ UNCHANGED <<threads, procs, vms, THREADS, PROCESSES, PROCESSORS, pageTable,
                   task, cpu, kpanic, load>>

\* add_to_table under the write lock, to its return, where the guard is dropped
AddToTableInsert(c) ==
    /\ Running /\ call[c].pc = "in_table"
    /\ LET res == add_to_table(threads, THREADS, Unwrap(call[c].thread))
       IN  /\ threads' = res.threads
           /\ THREADS' = res.THREADS
           /\ task' = Append(task, NoTask)
           /\ call' = [call EXCEPT ![c].pc = "registered", ![c].thread = None,
                                    ![c].res = res.self_ref]
    /\ UNCHANGED <<procs, vms, PROCESSES, PROCESSORS, pageTable, cpu, kpanic, load>>

\* new_user: add_to_process_table(res.proc.clone(), Pid(res.tid)); res
NewUserRegister(c) ==
    /\ Running /\ call[c].op = "new_user" /\ call[c].pc = "registered"
    /\ LET reg == add_to_process_table(procs, PROCESSES, call[c].proc,
                                       Pid(threads[call[c].res].tid))
       IN  procs' = reg.procs /\ PROCESSES' = reg.PROCESSES
    /\ call' = [call EXCEPT ![c] = IdleCall]
    /\ UNCHANGED <<threads, vms, THREADS, PROCESSORS, pageTable, task, cpu,
                   kpanic, load>>

\* fork: add_to_process_table(new_thread.proc.clone(), Pid(new_thread.tid))
ForkRegister(c) ==
    /\ Running /\ call[c].op = "fork" /\ call[c].pc = "registered"
    /\ LET reg == add_to_process_table(procs, PROCESSES, call[c].proc,
                                       Pid(threads[call[c].res].tid))
       IN  procs' = reg.procs /\ PROCESSES' = reg.PROCESSES
    /\ call' = [call EXCEPT ![c].pc = "push_tid"]
    /\ UNCHANGED <<threads, vms, THREADS, PROCESSORS, pageTable, task, cpu,
                   kpanic, load>>

\* fork: new_thread.proc.lock().threads.push(new_thread.tid), then
\* proc.children.push(..) under the guard taken at line 333, and the return,
\* where that guard is dropped
ForkPushTid(c) ==
    /\ Running /\ call[c].op = "fork" /\ call[c].pc = "push_tid"
    /\ ProcFree(call[c].proc)
    /\ LET tid == threads[call[c].res].tid
           linked == [procs EXCEPT ![call[c].proc].threads = Append(@, tid)]
       IN  procs' = link_to_parent(linked, threads[call[c].self].proc, Pid(tid),
                                   call[c].proc)
    /\ call' = [call EXCEPT ![c] = IdleCall]
    /\ UNCHANGED <<threads, vms, THREADS, PROCESSES, PROCESSORS, pageTable, task,
                   cpu, kpanic, load>>

\* new_clone: res.proc.lock().threads.push(res.tid); res
ClonePushTid(c) ==
    /\ Running /\ call[c].op = "new_clone" /\ call[c].pc = "registered"
    /\ ProcFree(threads[call[c].res].proc)
    /\ procs' = [procs EXCEPT ![threads[call[c].res].proc].threads =
                                 Append(@, threads[call[c].res].tid)]
    /\ call' = [call EXCEPT ![c] = IdleCall]
    /\ UNCHANGED <<threads, vms, THREADS, PROCESSES, PROCESSORS, pageTable, task,
                   cpu, kpanic, load>>

\* The next step of the call in progress on c.
CallStep(c) ==
    \/ ForkLockProc(c)
    \/ AddToTableLock(c)
    \/ AddToTableInsert(c)
    \/ NewUserRegister(c)
    \/ ForkRegister(c)
    \/ ForkPushTid(c)
    \/ ClonePushTid(c)

LockFrames == {f \in TrapFrames : f.ret # 0}

CallStart(c) ==
    \/ \E inode \in RunInodes, args \in ArgVecs, envs \in EnvVecs :
          StartNewUser(c, inode, "/bin/sh", args, envs)
    \/ \E self \in 1..Len(threads), tf \in LockFrames : StartFork(c, self, tf)
    \/ \E self \in 1..Len(threads), context \in LockFrames,
          stack_top \in StackTops, tls \in TlsValues :
          StartClone(c, self, context, stack_top, tls, 0)

NextLocks == \E c \in Cpus : CallStart(c) \/ CallStep(c)

SpecLocks == Init /\ [][NextLocks]_vars

----------------------------------------------------------------------------
(* Claims *)

TidsOf(p) == {procs[p].threads[i] : i \in 1..Len(procs[p].threads)}
ChildPidsOf(p) == {procs[p].children[i][1] : i \in 1..Len(procs[p].children)}
ForkChildren == {t \in Registered : IsSome(procs[threads[t].proc].parent[2])}
Siblings == {t \in Registered :
                \E u \in Registered : u # t /\ threads[u].proc = threads[t].proc}

\* C1: in every reachable state, no two thread records registered in THREADS
\* carry the same tid, and the record stored under key k has tid = k.
C1_UniqueTid ==
    /\ \A k \in DOMAIN THREADS : threads[THREADS[k]].tid = k
    /\ \A a \in Registered, b \in Registered :
          threads[a].tid = threads[b].tid => a = b

\* Three threads are registered, one made by fork and one by new_clone.
C1_Witness ==
    /\ Cardinality(Registered) = 3
    /\ ForkChildren # {}
    /\ Siblings # {}

\* C3: every registered thread's tid is listed in its process's threads, and
\* every tid listed in a process's threads is registered with that process.
C3_ThreadsInProc ==
    /\ \A t \in Registered : threads[t].tid \in TidsOf(threads[t].proc)
    /\ \A p \in 1..Len(procs) : \A tid \in TidsOf(p) :
          tid \in DOMAIN THREADS /\ threads[THREADS[tid]].proc = p

\* C4: when new_user_vm has returned an error, the memory set passed in holds
\* no region that the call mapped.
C4_LoaderAtomic ==
    (IsSome(load.out) /\ Unwrap(load.out).err # "")
        => Unwrap(load.out).vm \cap LoaderRegions = {}

\* C9: a process whose parent weak reference upgrades is listed by pid in that
\* parent's children, and a process made by new_user has a parent weak
\* reference that does not upgrade.
C9_ParentChild ==
    /\ [](\A p \in 1..Len(procs) :
            IsSome(procs[p].parent[2])
               => procs[p].pid \in ChildPidsOf(Unwrap(procs[p].parent[2])))
    /\ [][(\E inode \in Inodes, exec_path \in ExecPaths, args \in ArgVecs,
              envs \in EnvVecs : NewUser(inode, exec_path, args, envs))
          /\ Len(procs') > Len(procs)
             => procs'[Len(procs')].parent[2] = None]_vars

\* A forked process has itself forked, next to a process made by new_user.
C9_Witness ==
    \E p \in 1..Len(procs), q \in 1..Len(procs) :
       /\ procs[q].parent[2] = Some(p)
       /\ procs[p].parent[2] # None
       /\ procs[Unwrap(procs[p].parent[2])].parent[2] = None

\* C10: the thread that a creation step registers gets the smallest tid >= INIT
\* that was not a key of THREADS, whatever the table held; never 0.
C10_SmallestFree ==
    [][Len(threads') = Len(threads) + 1 =>
         LET new == Len(threads')
             tid == threads'[new].tid
         IN  /\ tid >= INIT /\ tid # 0
             /\ tid \notin DOMAIN THREADS
             /\ \A j \in INIT..(tid - 1) : j \in DOMAIN THREADS
             /\ DOMAIN THREADS' = DOMAIN THREADS \cup {tid}
             /\ THREADS'[tid] = new
             /\ \A k \in DOMAIN THREADS : THREADS'[k] = THREADS[k]]_vars

\* add_to_table has filled a gap below a key that was already in the table.
C10_Witness ==
    \E i \in 1..Len(threads) :
       /\ i < Len(threads)
       /\ threads[Len(threads)].tid < threads[i].tid
       /\ threads[Len(threads)].tid > INIT
       /\ Len(threads) \in Registered

\* C2: for every thread, the saved context is either in the thread record or
\* in the frame of its run-loop, never in both and never in neither, and
\* begin_running never finds it absent.
C2_ContextExclusive ==
    /\ \A t \in 1..Len(threads) :
          IsSome(threads[t].context) # IsSome(task[t].cx)
    /\ kpanic # "begin_running: unwrap on None"

\* One task is suspended inside handle_syscall with the context in its frame,
\* while another thread has its context back after a trap and a new round.
C2_Witness ==
    \E t \in Spawned, u \in Spawned :
       /\ task[t].pc = "syscall" /\ PollingCpus(t) = {} /\ IsSome(task[t].cx)
       /\ task[u].pc = "begin" /\ IsSome(threads[u].context)
       /\ Unwrap(threads[u].context).trap_num = T_PAGE_FAULT

\* C5: while the inner future of a task is polled on a CPU, the paging token
\* of that CPU is the vmtoken captured at spawn, the token of the thread's vm.
C5_PollToken ==
    \A c \in Cpus :
       cpu[c].pc = "inner" =>
          /\ pageTable[c] = task[cpu[c].t].vmtoken
          /\ pageTable[c] = threads[cpu[c].t].vm

\* A task is polled on one CPU after it was polled on another one, and a task
\* with another token, suspended since, was polled before it on one of the two.
C5_Witness ==
    \E c \in Cpus, d \in Cpus, t \in Spawned, u \in Spawned :
       /\ c # d /\ t # u
       /\ cpu[c].pc = "inner" /\ cpu[c].t = t
       /\ cpu[d].pc = "idle" /\ pageTable[d] = task[t].vmtoken
       /\ task[u].pc = "syscall" /\ PollingCpus(u) = {}
       /\ task[u].vmtoken # task[t].vmtoken

\* C6: PROCESSORS[c] is the thread whose task is being polled on c while a
\* poll is in progress on c, and None when no poll is in progress on c.
C6_CurrentThread ==
    \A c \in Cpus :
       /\ cpu[c].pc = "idle" => PROCESSORS[c] = None
       /\ cpu[c].pc # "idle" => PROCESSORS[c] = Some(cpu[c].t)

\* A poll is in progress on one CPU while another CPU is idle again after the
\* poll of another task that returned Ready.
C6_Witness ==
    \E c \in Cpus, d \in Cpus, t \in Spawned, u \in Spawned :
       /\ c # d /\ t # u
       /\ cpu[c].pc = "inner" /\ cpu[c].t = t /\ PROCESSORS[c] = Some(t)
       /\ cpu[d].pc = "idle" /\ PROCESSORS[d] = None
       /\ task[u].pc = "done" /\ pageTable[d] = task[u].vmtoken
       /\ task[u].vmtoken # task[t].vmtoken

\* C7: a round that handled a trap is followed by another cx.run iff its exit
\* flag is false; with the flag true the loop ends with the context restored
\* and the task never runs again; only a trap 0x100, through handle_syscall,
\* ends the loop.
C7_ExitTerminal ==
    [][\A t \in 1..Len(task) :
          /\ (task[t].pc \in {"trap", "syscall"} /\ task'[t].pc \notin {"trap", "syscall"})
                => /\ task'[t].pc = (IF task'[t].exit THEN "done" ELSE "begin")
                   /\ IsSome(threads'[t].context)
          /\ task[t].pc = "done" => task'[t] = task[t] /\ threads'[t] = threads[t]
          /\ (task[t].pc # "done" /\ task'[t].pc = "done")
                => /\ Unwrap(task[t].cx).trap_num = T_SYSCALL
                   /\ task'[t].handled = <<"syscall">>
          /\ (task[t].pc = "trap" /\ Unwrap(task[t].cx).trap_num # T_SYSCALL
                                  /\ task'[t] # task[t])
                => task'[t].pc = "begin" /\ ~task'[t].exit]_vars

\* One task has ended; another has gone round after a page fault and its
\* poll is about to enter user mode again.
C7_Witness ==
    \E t \in Spawned, u \in Spawned :
       /\ task[t].pc = "done"
       /\ task[u].pc = "begin" /\ InnerPolled(u)
       /\ Unwrap(threads[u].context).trap_num = T_PAGE_FAULT

\* C8: a poll that returns Pending leaves the run-loop inside handle_syscall
\* for a trap 0x100 with the context in the frame; a poll that returns Ready
\* leaves the context in the thread record.
C8_Suspension ==
    \A c \in Cpus :
       /\ (cpu[c].pc = "exit" /\ cpu[c].res = "Pending") =>
             /\ task[cpu[c].t].pc = "syscall"
             /\ IsSome(task[cpu[c].t].cx)
             /\ Unwrap(task[cpu[c].t].cx).trap_num = T_SYSCALL
             /\ threads[cpu[c].t].context = None
       /\ (cpu[c].pc = "exit" /\ cpu[c].res = "Ready") =>
             /\ task[cpu[c].t].pc = "done"
             /\ task[cpu[c].t].cx = None
             /\ IsSome(threads[cpu[c].t].context)

\* One poll is returning Pending and one is returning Ready.
C8_Witness ==
    \E c \in Cpus, d \in Cpus :
       /\ cpu[c].pc = "exit" /\ cpu[c].res = "Pending"
       /\ cpu[d].pc = "exit" /\ cpu[d].res = "Ready"

\* The creation calls of Spec, as steps.
NewUserStep ==
    \E inode \in Inodes, exec_path \in ExecPaths, args \in ArgVecs, envs \in EnvVecs :
       NewUser(inode, exec_path, args, envs)
ForkStep(self) == \E tf \in TrapFrames : Fork(self, tf)
NewCloneStep(self) ==
    \E context \in TrapFrames, stack_top \in StackTops, tls \in TlsValues,
       clear_child_tid \in ChildTidAddrs :
       NewClone(self, context, stack_top, tls, clear_child_tid)

\* C11: a new_user or fork step that makes a thread registers the new process
\* in PROCESSES under a pid equal to the tid of the new thread, which heads it; a
\* new_clone step registers no process, gives the new thread a tid that was not
\* in THREADS, and puts it in the caller's process, whose pid is unchanged.
C11_PidIsTid ==
    [][Len(threads') = Len(threads) + 1 =>
         LET new == Len(threads')
             tid == threads'[new].tid
             p == threads'[new].proc
         IN  /\ (NewUserStep \/ \E self \in Registered : ForkStep(self))
                   => /\ p = Len(procs') /\ Len(procs') = Len(procs) + 1
                      /\ procs'[p].pid = tid
                      /\ DOMAIN PROCESSES' = DOMAIN PROCESSES \cup {tid}
                      /\ PROCESSES'[tid] = p
                      /\ \A k \in DOMAIN PROCESSES \ {tid} : PROCESSES'[k] = PROCESSES[k]
             /\ \A self \in Registered :
                   NewCloneStep(self)
                   => /\ PROCESSES' = PROCESSES /\ Len(procs') = Len(procs)
                      /\ tid \notin DOMAIN THREADS /\ THREADS'[tid] = new
                      /\ p = threads[self].proc
                      /\ procs'[p].pid = procs[p].pid]_vars

\* A process made by fork and a thread made by new_clone are registered: the
\* process under the tid of its thread, the clone under a tid that is no pid.
C11_Witness ==
    \E t \in ForkChildren, u \in Siblings :
       /\ PROCESSES[threads[t].tid] = threads[t].proc
       /\ procs[threads[t].proc].pid = threads[t].tid
       /\ threads[u].tid \notin DOMAIN PROCESSES
       /\ procs[threads[u].proc].pid # threads[u].tid

\* C12: when a thread inside handle_syscall calls fork(tf) on the context tf in
\* its frame, the child's saved context is tf with the syscall-return register
\* set to 0, and tf in the caller's frame is as it was.
C12_ForkContext ==
    [][\A c \in Cpus, t \in 1..Len(task) :
          SysFork(c, t) =>
             LET tf == Unwrap(task[t].cx)
                 child == threads'[Len(threads')]
             IN  /\ child.context = Some([tf EXCEPT !.ret = 0])
                 /\ task'[t].cx = Some(tf)]_vars

\* A fork child holds the context of its parent's frame, but for the
\* syscall-return register: 0 in the child, the syscall number in the frame.
C12_Witness ==
    \E t \in ForkChildren, u \in 1..Len(task) :
       /\ threads[u].proc = Unwrap(procs[threads[t].proc].parent[2])
       /\ IsSome(task[u].cx) /\ Unwrap(task[u].cx).ret = 57
       /\ Unwrap(task[u].cx).tls = 3
       /\ threads[t].context = Some([Unwrap(task[u].cx) EXCEPT !.ret = 0])

\* C13: a new_clone step gives the new thread the vm handle and the proc handle
\* of the source thread, allocating no memory set and no process, and the
\* signal mask of the source thread.
C13_CloneShares ==
    [][\A self \in Registered :
          NewCloneStep(self) =>
             LET new == threads'[Len(threads')]
             IN  /\ new.vm = threads[self].vm /\ new.proc = threads[self].proc
                 /\ new.sig_mask = threads[self].sig_mask
                 /\ threads'[self] = threads[self]
                 /\ Len(vms') = Len(vms) /\ Len(procs') = Len(procs)]_vars

\* A thread of a forked process has a sibling made by new_clone, next to the
\* thread of another process with another memory set.
C13_Witness ==
    \E t \in ForkChildren, u \in Registered, v \in Registered :
       /\ u # t /\ threads[u].proc = threads[t].proc /\ threads[u].vm = threads[t].vm
       /\ threads[u].sig_mask = threads[t].sig_mask
       /\ threads[v].proc # threads[t].proc /\ threads[v].vm # threads[t].vm

\* C14: a new_user call whose loader fails comes back to its caller with the
\* failure (the kernel goes on running), and registers no thread in THREADS and
\* no process in PROCESSES.
C14_LoadFailureSurfaced ==
    [][\A inode \in Inodes, exec_path \in ExecPaths, args \in ArgVecs, envs \in EnvVecs :
          (/\ new_user_vm(inode, args, envs, MemorySetNew).err # ""
           /\ NewUser(inode, exec_path, args, envs))
          => /\ kpanic' = ""
             /\ THREADS' = THREADS /\ PROCESSES' = PROCESSES]_vars

\* The number of calls of handler h in the sequence of calls of a round.
Calls(handled, h) == Cardinality({i \in 1..Len(handled) : handled[i] = h})

\* C15: when the arm of the match is through for the trap number n that cx.run
\* came back with, the round has called handle_syscall once iff n = 0x100, EOI
\* once iff n is in 0x20..0x3f, the timer tick once iff n = 0x20, the serial
\* receive once iff n = 0x24, handle_page_fault once iff n = 0xe, and nothing
\* else; for an IRQ, end_running stores the context cx.run returned.
C15_OneHandler ==
    [][\A t \in 1..Len(task) :
          (task[t].pc = "trap" /\ task'[t].pc # "trap") =>
             LET n == Unwrap(task[t].cx).trap_num
                 h == task'[t].handled
                 Once(name, cond) == Calls(h, name) = (IF cond THEN 1 ELSE 0)
             IN  /\ Once("syscall", n = 256)
                 /\ Once("eoi", n \in 32..63)
                 /\ Once("timer", n = 32)
                 /\ Once("serial", n = 36)
                 /\ Once("page_fault", n = 14)
                 /\ \A i \in 1..Len(h) :
                       h[i] \in {"syscall", "eoi", "timer", "serial", "page_fault"}
                 /\ (n = 256) \/ (n \in 32..63) \/ (n = 14) \/ h = <<>>
                 /\ n \in 32..63 => threads'[t].context = task[t].cx]_vars

\* A round has handled the last IRQ of the range with the EOI alone and has
\* given the context back, and the loop is ready for the next round.
C15_Witness ==
    \E t \in Spawned :
       /\ task[t].pc = "begin" /\ task[t].handled = <<"eoi">>
       /\ IsSome(threads[t].context)
       /\ Unwrap(threads[t].context).trap_num = 63

\* C16: when a thread inside handle_syscall calls new_clone(ctx, stack_top, tls,
\* clear_child_tid) on the context ctx in its frame, the new thread's saved
\* context is ctx with the stack pointer stack_top, the TLS register tls and
\* the syscall-return register 0, its clear_child_tid is the given value, and
\* ctx in the caller's frame is as it was.
C16_CloneContext ==
    [][\A c \in Cpus, t \in 1..Len(task), stack_top \in StackTops, tls \in TlsValues,
          clear_child_tid \in ChildTidAddrs :
          SysClone(c, t, stack_top, tls, clear_child_tid) =>
             LET ctx == Unwrap(task[t].cx)
                 new == threads'[Len(threads')]
             IN  /\ new.context =
                       Some([ctx EXCEPT !.sp = stack_top, !.tls = tls, !.ret = 0])
                 /\ new.clear_child_tid = clear_child_tid
                 /\ task'[t].cx = Some(ctx)]_vars

\* A clone made with a child-tid address holds the context of its caller's
\* frame with another stack pointer, another TLS register and return value 0.
C16_Witness ==
    \E t \in Siblings, u \in 1..Len(task) :
       /\ threads[u].proc = threads[t].proc /\ IsSome(task[u].cx)
       /\ threads[t].clear_child_tid = 9
       /\ LET ctx == Unwrap(task[u].cx)
              new == Unwrap(threads[t].context)
          IN  /\ new.sp = 7 /\ ctx.sp = 6
              /\ new.tls = 5 /\ ctx.tls = 3
              /\ new.ret = 0 /\ ctx.ret = 56
              /\ new.ip = ctx.ip /\ new.rflags = ctx.rflags
              /\ new.trap_num = ctx.trap_num

\* C17: after a fork, the child process has the files, cwd, exec_path, pgid,
\* signal dispositions and semaphores the parent had when fork was called, and
\* empty futexes, no children, no pending signal, an empty signal queue, the
\* default alt-stack and a new event bus; its threads are the tid of the child
\* thread alone; the child thread has the signal mask of the forking thread.
C17_ForkProcess ==
    [][\A c \in Cpus, t \in 1..Len(task) :
          SysFork(c, t) =>
             LET parent == procs[threads[t].proc]
                 new == threads'[Len(threads')]
                 child == procs'[new.proc]
             IN  /\ new.proc = Len(procs') /\ Len(procs') = Len(procs) + 1
                 /\ child.files = parent.files /\ child.cwd = parent.cwd
                 /\ child.exec_path = parent.exec_path /\ child.pgid = parent.pgid
                 /\ child.dispositions = parent.dispositions
                 /\ child.semaphores = parent.semaphores
                 /\ child.futexes = {} /\ child.children = <<>>
                 /\ child.pending_sigset = {} /\ child.sig_queue = <<>>
                 /\ child.sigaltstack = "default" /\ child.eventbus = "new"
                 /\ child.threads = <<new.tid>>
                 /\ new.sig_mask = threads[t].sig_mask]_vars

\* A process that has a file open, another directory, handlers, pending
\* signals and a child already has forked once more.
C17_Witness ==
    \E p \in 1..Len(procs), q \in 1..Len(procs) :
       /\ procs[q].parent[2] = Some(p) /\ Len(procs[p].children) = 2
       /\ procs[p].cwd = "/tmp" /\ procs[q].cwd = "/tmp"
       /\ 3 \in DOMAIN procs[q].files
       /\ procs[p].pending_sigset # {} /\ procs[q].pending_sigset = {}
       /\ procs[p].futexes # {} /\ procs[q].futexes = {}
       /\ procs[q].children = <<>> /\ Len(procs[q].threads) = 1

\* C18: in every state reached by new_user, fork and new_clone, every thread
\* holds the vm handle of its process, two threads hold the same vm handle iff
\* they hold the same proc handle, and a forked process holds another vm
\* handle than its parent.
C18_VmPerProcess ==
    /\ \A t \in 1..Len(threads) : threads[t].vm = procs[threads[t].proc].vm
    /\ \A t \in 1..Len(threads), u \in 1..Len(threads) :
          (threads[t].vm = threads[u].vm) <=> (threads[t].proc = threads[u].proc)
    /\ \A p \in 1..Len(procs) :
          IsSome(procs[p].parent[2])
             => procs[p].vm # procs[Unwrap(procs[p].parent[2])].vm

\* A thread made by fork from a thread made by new_clone: two threads share
\* the parent's memory set and the child has its own.
C18_Witness ==
    \E t \in Siblings, u \in Siblings, v \in ForkChildren :
       /\ t # u /\ threads[t].proc = threads[u].proc /\ threads[t].vm = threads[u].vm
       /\ procs[threads[v].proc].parent[2] = Some(threads[t].proc)
       /\ threads[v].vm # threads[t].vm
       /\ threads[v].tid > threads[t].tid /\ threads[v].tid > threads[u].tid

\* The inode fails one of the four checks new_user_vm makes first.
FailsEarly(inode) ==
    \/ ~inode.read_ok
    \/ ~inode.elf_ok
    \/ inode.type \notin {"Executable", "SharedObject"}
    \/ inode.machine # "X86_64"

\* C19: when new_user_vm has returned on an inode whose read, ELF parse, ELF
\* type check or machine check fails, it has returned an error and the memory
\* set passed in is as it was on entry; on an inode that passes the four
\* checks, the memory set has been cleared and the segments mapped.
C19_EarlyFailureFrame ==
    IsSome(load.out) =>
       LET inode == Unwrap(load.inode)
           out == Unwrap(load.out)
       IN  /\ FailsEarly(inode) => out.err # "" /\ out.vm = load.vm0
           /\ ~FailsEarly(inode) => "elf" \in out.vm /\ "old" \notin out.vm

\* The loader has rejected an ELF of another machine, whose read, parse and
\* type are good, and the region the caller's memory set held is still there.
C19_Witness ==
    /\ IsSome(load.out) /\ Unwrap(load.out).err = "invalid ELF arch"
    /\ load.vm0 = {"old"} /\ Unwrap(load.out).vm = {"old"}
    /\ Unwrap(load.inode).interp = "ok"

\* C20: in every state reached by concurrent new_user, fork and new_clone
\* calls, a call that holds the THREADS write lock can take its next step, and
\* when calls are in progress one of them can take its next step: no set of
\* calls waits for locks in a cycle.
C20_NoDeadlock ==
    /\ \A c \in Cpus : HoldsThreads(c) => ENABLED CallStep(c)
    /\ (\E c \in Cpus : Busy(c)) => \E c \in Cpus : Busy(c) /\ ENABLED CallStep(c)

\* A fork holds the lock of its process and has taken the THREADS write lock,
\* while a new_clone on a sibling thread waits for the THREADS write lock.
C20_Witness ==
    \E c \in Cpus, d \in Cpus :
       /\ call[c].op = "fork" /\ HoldsThreads(c)
       /\ HoldsProc(c, threads[call[c].self].proc)
       /\ call[d].op = "new_clone" /\ call[d].pc = "table"
       /\ ~ENABLED CallStep(d)
       /\ threads[call[d].self].proc = threads[call[c].self].proc

====
